---- MODULE Spec2Model ----
(***************************************************************************)
(* AXI Stream FIFO ramp-wave test application (helloworld.c).              *)
(*                                                                         *)
(* The program generates a 256-sample ramp into TxBuffer and then streams  *)
(* that buffer into the AXI Stream FIFO for ever, one frame per iteration, *)
(* leaving only through one of the two "return XST_FAILURE" statements.    *)
(* The XLlFifo driver and the FIFO core are the environment: what the      *)
(* vacancy and status registers return is a nondeterministic input.        *)
(*                                                                         *)
(* TLC integers are 32-bit signed, so a C u32 is kept as two 16-bit halves *)
(* [hi, lo], and a C float as an exact dyadic value m * 2^e that every     *)
(* operation rounds to a 24-bit significand (round to nearest, ties to     *)
(* even), as IEEE-754 binary32 arithmetic does.                            *)
(***************************************************************************)
EXTENDS Integers, Naturals, Sequences, FiniteSets, TLC

(***************************************************************************)
(* Bounds of the model (not program constants).                            *)
(***************************************************************************)
\* Largest NumSamples GenerateRampWave is exercised with, besides 256.
MaxSamples == 12
\* Largest vacancy (in words) the TX vacancy register reports.
MaxVacancy == 512
\* The ghost frame counter saturates here.
MaxFrames == 2
\* Largest number of calls of GenerateRampWave on the same buffer.
MaxCalls == 2
\* The ghost count of status reads in one pass of the loop saturates here.
MaxPolls == 2
\* Capacity of the transmit FIFO, in words, when its occupancy is tracked.
FifoDepth == 256

(***************************************************************************)
(* Program constants.                                                      *)
(***************************************************************************)
NUM_SAMPLES == 256
\* The status codes main returns, by name.
XST_SUCCESS == "XST_SUCCESS"
XST_FAILURE == "XST_FAILURE"

(***************************************************************************)
(* u32 values as two 16-bit halves.                                        *)
(***************************************************************************)
Half == 65536

U32(h, l) == [hi |-> h, lo |-> l]

\* A small natural number as a u32.
ToU32(n) == U32(n \div Half, n % Half)

\* a - b on u32, wrapping modulo 2^32 (NumSamples - 2, NumSamples - 1).
Sub32(a, b) ==
    LET borrow == IF a.lo < b.lo THEN 1 ELSE 0
    IN  U32((a.hi - b.hi - borrow + Half) % Half, (a.lo - b.lo + Half) % Half)

\* Bitwise AND of two naturals below 2^16.
RECURSIVE BitAnd(_, _)
BitAnd(a, b) ==
    IF a = 0 \/ b = 0 THEN 0
    ELSE (a % 2) * (b % 2) + 2 * BitAnd(a \div 2, b \div 2)

And32(a, b) == U32(BitAnd(a.hi, b.hi), BitAnd(a.lo, b.lo))
Or32(a, b) ==
    U32(a.hi + b.hi - BitAnd(a.hi, b.hi), a.lo + b.lo - BitAnd(a.lo, b.lo))
Not32(a) == U32(Half - 1 - a.hi, Half - 1 - a.lo)

Zero32 == U32(0, 0)
AllOnes32 == U32(65535, 65535)

\* XLLF_INT_ERROR_MASK of the driver header xllfifo_hw.h: 0xF2000000
\* (RPURE | RPORE | RPUE | TPOE | TSE).
XLLF_INT_ERROR_MASK == U32(61952, 0)

\* "Status < NUM_SAMPLES": Status is a C int holding the register's 32 bits,
\* so a pattern with bit 31 set is negative.
IntLess(s, n) == s.hi >= 32768 \/ (s.hi = 0 /\ s.lo < n)

\* "Status & XLLF_INT_ERROR_MASK" as a C condition.
HasError(s) == And32(s, XLLF_INT_ERROR_MASK) # Zero32

(***************************************************************************)
(* C float (IEEE-754 binary32), non-negative values only: a finite value   *)
(* is m * 2^e with m odd (or zero); every operation computes the exact     *)
(* result and rounds it to 24 significant bits, ties to even.  All the     *)
(* magnitudes of this program lie between 2^-19 and 2^32, far from the     *)
(* subnormal and overflow ranges.  The operations are functions, so that   *)
(* an argument is a value, computed once.                                  *)
(***************************************************************************)
Float == [k : {"fin", "inf", "nan"}, m : Nat, e : Int]
Word == [hi : 0 .. 65535, lo : 0 .. 65535]

Inf == [k |-> "inf", m |-> 0, e |-> 0]
NaN == [k |-> "nan", m |-> 0, e |-> 0]
FZero == [k |-> "fin", m |-> 0, e |-> 0]
\* The literal 0.5f.
FHalf == [k |-> "fin", m |-> 1, e |-> -1]

Strip[m \in Nat, e \in Int] ==
    IF m = 0 THEN FZero
    ELSE IF m % 2 = 0 THEN Strip[m \div 2, e + 1]
    ELSE [k |-> "fin", m |-> m, e |-> e]

\* Number of significant bits of m.
BitLen[m \in Nat] == IF m = 0 THEN 0 ELSE 1 + BitLen[m \div 2]

\* (m + d) * 2^e, where 0 < d < 1 if sticky and d = 0 otherwise, rounded to
\* a 24-bit significand, ties to even.  A sticky value has m >= 2^24.
RoundF[m \in Nat, e \in Int, sticky \in BOOLEAN] ==
    LET s == IF BitLen[m] > 24 THEN BitLen[m] - 24 ELSE 0
        q == m \div (2 ^ s)
        r == m % (2 ^ s)
        half == 2 ^ (s - 1)
        up == /\ s > 0
              /\ \/ r > half
                 \/ r = half /\ (sticky \/ q % 2 = 1)
    IN  Strip[IF up THEN q + 1 ELSE q, e + s]

\* (float) of a u32: "(float)MAX_COUNT", the conversion of "NumSamples - 2"
\* and of i.
FromU32[x \in Word] ==
    IF x.hi < 32768 THEN RoundF[x.hi * Half + x.lo, 0, FALSE]
    ELSE LET v == x.hi * 256 + (x.lo \div 256)
             r == x.lo % 256
             up == r > 128 \/ (r = 128 /\ v % 2 = 1)
         IN  Strip[IF up THEN v + 1 ELSE v, 8]

\* Smallest k' >= k with (n * 2^(k' - k)) \div d >= 2^24.
DivShift[n \in Nat, d \in Nat, k \in Nat] ==
    IF n \div d >= 2 ^ 24 THEN k ELSE DivShift[2 * n, d, k + 1]

\* a / b in float.  x / 0 is +infinity and 0 / 0 a NaN, as the FPU computes.
FDiv[a \in Float, b \in Float] ==
    IF a.k = "nan" \/ b.k = "nan" THEN NaN
    ELSE IF a.k = "inf" THEN (IF b.k = "inf" THEN NaN ELSE Inf)
    ELSE IF b.k = "inf" THEN FZero
    ELSE IF b.m = 0 THEN (IF a.m = 0 THEN NaN ELSE Inf)
    ELSE IF a.m = 0 THEN FZero
    ELSE LET k == DivShift[a.m, b.m, 0]
             n == a.m * (2 ^ k)
         IN  RoundF[n \div b.m, a.e - b.e - k, n % b.m # 0]

\* a * b in float.
FMul[a \in Float, b \in Float] ==
    IF a.k = "nan" \/ b.k = "nan" THEN NaN
    ELSE IF a.k = "inf" \/ b.k = "inf"
         THEN (IF (a.k = "fin" /\ a.m = 0) \/ (b.k = "fin" /\ b.m = 0)
               THEN NaN ELSE Inf)
    ELSE RoundF[a.m * b.m, a.e + b.e, FALSE]

\* a + b in float.
FAdd[a \in Float, b \in Float] ==
    IF a.k = "nan" \/ b.k = "nan" THEN NaN
    ELSE IF a.k = "inf" \/ b.k = "inf" THEN Inf
    ELSE LET e == IF a.e < b.e THEN a.e ELSE b.e
         IN  RoundF[a.m * (2 ^ (a.e - e)) + b.m * (2 ^ (b.e - e)), e, FALSE]

\* What a (u32) conversion yields when the float is a NaN, an infinity or
\* out of range: the C standard leaves it undefined, and builds differ
\* (0 on ARM, saturation or an "indefinite" pattern elsewhere).
UndefinedConversions ==
    {Zero32, U32(0, 1), U32(0, 16383), U32(0, 16384),
     U32(32768, 0), AllOnes32}

\* (u32) of a float: truncation towards zero, as a set of possible results.
FToU32[f \in Float] ==
    IF f.k = "fin" /\ f.e < 0 THEN {ToU32(f.m \div (2 ^ (-f.e)))}
    ELSE IF f.k = "fin" /\ BitLen[f.m] + f.e <= 32
         THEN IF f.e >= 16 THEN {U32(f.m * (2 ^ (f.e - 16)), 0)}
              ELSE {U32(f.m \div (2 ^ (16 - f.e)),
                        (f.m % (2 ^ (16 - f.e))) * (2 ^ f.e))}
    ELSE UndefinedConversions

(***************************************************************************)
(* GenerateRampWave, expression by expression.                             *)
(***************************************************************************)
\* const u32 MAX_COUNT = 0x3FFF
MAX_COUNT == 16383

\* scaleFactor = (float)MAX_COUNT / (NumSamples - 2)
ScaleFactor(n) ==
    FDiv[FromU32[ToU32(MAX_COUNT)], FromU32[Sub32(ToU32(n), ToU32(2))]]

\* Rounded without the "+ 0.5f": plain truncation.
Rounded_Truncating(idx, scale) ==
    FToU32[FMul[FromU32[ToU32(idx)], scale]]

\* Rounded with 1.0f added instead of 0.5f.
Rounded_Ceiling(idx, scale) ==
    FToU32[FAdd[FMul[FromU32[ToU32(idx)], scale], [k |-> "fin", m |-> 1, e |-> 0]]]

\* (u32)((i * scaleFactor) + 0.5f), the possible values of rampValue.
Rounded(idx, scale) ==
    FToU32[FAdd[FMul[FromU32[ToU32(idx)], scale], FHalf]]

\* if (rampValue > MAX_COUNT) rampValue = MAX_COUNT;
Clamp(r) == IF r.hi > 0 \/ r.lo > MAX_COUNT THEN ToU32(MAX_COUNT) ELSE r

\* A shift by 19 instead of 18: the top bit of the amplitude is lost.
Shl19(r) == U32((r.lo % 8192) * 8, 0)

\* A shift by 17 instead of 18.
Shl17(r) == U32((r.lo % 32768) * 2, 0)

\* rampValue << 18 on a u32: bits 13..0 move to bits 31..18.
Shl18(r) == U32((r.lo % 16384) * 4, 0)

\* i == NumSamples - 1
IsLast(idx, n) == ToU32(idx) = Sub32(ToU32(n), ToU32(1))

\* The possible values of rampValue before the clamp, for index idx.
RampValues(idx, n, scale) ==
    IF IsLast(idx, n) THEN {Zero32} ELSE Rounded(idx, scale)

\* shiftedValue for index idx, given rampValue before the clamp.
ShiftedValue(idx, n, r) ==
    IF IsLast(idx, n) THEN Zero32 ELSE Shl18(Clamp(r))

\* The possible values of shiftedValue for index idx.
ShiftedValues(idx, n, scale) ==
    {ShiftedValue(idx, n, r) : r \in RampValues(idx, n, scale)}

\* element >> 18 and element & 0x3FFFF of a stored word.
Amplitude(w) == w.hi \div 4
LowBits(w) == (w.hi % 4) * Half + w.lo

(***************************************************************************)
(* State.                                                                  *)
(***************************************************************************)
VARIABLES
    pc,            \* the statement the program is at
    TxBuffer,      \* u32 TxBuffer[]: index -> word
    NumSamples,    \* GenerateRampWave's parameter
    gi,            \* GenerateRampWave's loop index i
    scaleFactor,   \* GenerateRampWave's scaleFactor
    written,       \* the indices GenerateRampWave has stored to, in order
    genret,        \* where GenerateRampWave returns to
    calls,         \* number of calls of GenerateRampWave so far
    firstBuf,      \* the buffer as the first call of GenerateRampWave left it
    clampHit,      \* whether this call has executed "rampValue = MAX_COUNT"
    Status,        \* main's Status, as the 32 bits it holds
    TxFrameLength, \* main's TxFrameLength
    i,             \* main's loop index i
    retval,        \* main's return value, "running" until it returns
    signal,        \* the fatal diagnostic main printed, "None" until then
    isr,           \* the FIFO's latched interrupt status register
    txd,           \* the words put into the FIFO since the last frame commit
    frame,         \* the last frame commit: its length and its words
    frames,        \* number of frame commits, saturating at MaxFrames
    ops,           \* the Initialize / Reset / IntClear calls made, in order
    lastOp,        \* the most recent driver call
    polls,         \* XLlFifo_Status calls in this pass of the loop, saturating
    occ,           \* words held by the transmit FIFO, when sink = "fifo"
    sink           \* "mock": any vacancy is reported; "fifo": FifoDepth - occ

vars == <<pc, TxBuffer, NumSamples, gi, scaleFactor, written, genret, calls,
          firstBuf, clampHit, Status,
          TxFrameLength, i, retval, signal, isr, txd, frame, frames, ops,
          lastOp, polls, occ, sink>>

genVars == <<TxBuffer, NumSamples, gi, scaleFactor, written, genret, calls,
            firstBuf, clampHit>>
mainVars == <<Status, TxFrameLength, i, retval, signal>>
fifoVars == <<isr, txd, frame, frames, ops, lastOp, polls, occ, sink>>

Op(name, arg) == [op |-> name, arg |-> arg]
NoOp == Op("none", Zero32)
NoFrame == [len |-> 0, words |-> <<>>]

(***************************************************************************)
(* The environment: what the FIFO core can report.                         *)
(***************************************************************************)
\* Interrupt status bits of the core (bits 31..16 of the register):
\* RPURE 0x8000, TPOE 0x1000, TC 0x0800, TSE 0x0200, TRC 0x0100, RRC 0x0080.
HwEvents ==
    {Zero32, U32(2048, 0), U32(384, 0), U32(512, 0), U32(6144, 0),
     U32(32768, 0)}

\* Values of the TX vacancy register, in words.
VacancyValues ==
    {0, NUM_SAMPLES - 1, NUM_SAMPLES, NUM_SAMPLES + 1, MaxVacancy}

\* What XLlFifo_iTxVacancy can return: anything for the mock sink, the free
\* space for the FIFO whose occupancy is tracked.
Vacancies(s, o) ==
    IF s = "fifo" THEN {IF o < FifoDepth THEN FifoDepth - o ELSE 0}
    ELSE VacancyValues

\* What the core can latch at one step.  With the occupancy tracked only the
\* two outcomes the loop tells apart are kept: nothing, or a transmit size
\* error.
Events(s) == IF s = "fifo" THEN {Zero32, U32(512, 0)} ELSE HwEvents

(***************************************************************************)
(* main, up to the streaming loop.                                         *)
(***************************************************************************)
Init ==
    /\ pc = "Initialize"
    /\ TxBuffer = [k \in 0 .. NUM_SAMPLES - 1 |-> Zero32]
    /\ NumSamples = 0
    /\ gi = 0
    /\ scaleFactor = FZero
    /\ written = <<>>
    /\ genret = "FrameLength"
    /\ calls = 0
    /\ firstBuf = <<>>
    /\ clampHit = FALSE
    /\ Status = Zero32
    /\ TxFrameLength = 0
    /\ i = 0
    /\ retval = "running"
    /\ signal = "None"
    /\ isr \in HwEvents
    /\ txd = <<>>
    /\ frame = NoFrame
    /\ frames = 0
    /\ ops = <<>>
    /\ lastOp = NoOp
    /\ polls = 0
    /\ occ = 0
    /\ sink = "mock"

\* XLlFifo_Initialize(&FifoInstance, FIFO_BASE_ADDR);
Initialize ==
    /\ pc = "Initialize"
    /\ pc' = "Reset"
    /\ ops' = Append(ops, Op("Initialize", Zero32))
    /\ lastOp' = Op("Initialize", Zero32)
    /\ UNCHANGED <<genVars, mainVars, isr, txd, frame, frames, polls, occ,
                   sink>>

\* XLlFifo_Reset(&FifoInstance);
Reset ==
    /\ pc = "Reset"
    /\ pc' = "IntClear"
    /\ \E e \in Events(sink) : isr' = e
    /\ txd' = <<>>
    /\ ops' = Append(ops, Op("Reset", Zero32))
    /\ lastOp' = Op("Reset", Zero32)
    /\ occ' = 0
    /\ UNCHANGED <<genVars, mainVars, frame, frames, polls, sink>>

\* The start-up XLlFifo_IntClear left out.
IntClearAll_Omitted ==
    /\ pc = "IntClear"
    /\ pc' = "usleep"
    /\ UNCHANGED <<genVars, mainVars, fifoVars>>

\* XLlFifo_IntClear(&FifoInstance, 0xffffffff);
IntClearAll ==
    /\ pc = "IntClear"
    /\ pc' = "usleep"
    /\ isr' = And32(isr, Not32(AllOnes32))
    /\ ops' = Append(ops, Op("IntClear", AllOnes32))
    /\ lastOp' = Op("IntClear", AllOnes32)
    /\ UNCHANGED <<genVars, mainVars, txd, frame, frames, polls, occ, sink>>

\* usleep(1000): the core goes on latching events meanwhile.
Sleep ==
    /\ pc = "usleep"
    /\ pc' = "ResetStatus"
    /\ \E e \in Events(sink) : isr' = Or32(isr, e)
    /\ UNCHANGED <<genVars, mainVars, txd, frame, frames, ops, lastOp, polls,
                   occ, sink>>

\* ResetStatus with the commented-out check restored: a non-zero status
\* after the reset ends the run with XST_FAILURE.
ResetStatus_Validated ==
    /\ pc = "ResetStatus"
    /\ pc' = IF isr # Zero32 THEN "done" ELSE "Generate"
    /\ retval' = IF isr # Zero32 THEN XST_FAILURE ELSE retval
    /\ signal' = IF isr # Zero32 THEN "ResetFailed" ELSE signal
    /\ Status' = isr
    /\ lastOp' = Op("Status", Zero32)
    /\ UNCHANGED <<genVars, TxFrameLength, i, isr, txd, frame, frames, ops,
                   polls, occ, sink>>

\* Status = XLlFifo_Status(&FifoInstance);  (the check of it is commented out)
ResetStatus ==
    /\ pc = "ResetStatus"
    /\ pc' = "Generate"
    /\ Status' = isr
    /\ lastOp' = Op("Status", Zero32)
    /\ UNCHANGED <<genVars, TxFrameLength, i, retval, signal, isr, txd, frame,
                   frames, ops, polls, occ, sink>>

\* GenerateRampWave(TxBuffer, NUM_SAMPLES): the call.
CallGenerate ==
    /\ pc = "Generate"
    /\ pc' = "gen_entry"
    /\ NumSamples' = NUM_SAMPLES
    /\ genret' = "FrameLength"
    /\ calls' = IF calls < MaxCalls THEN calls + 1 ELSE calls
    /\ UNCHANGED <<TxBuffer, gi, scaleFactor, written, firstBuf, clampHit,
                   mainVars, fifoVars>>

(***************************************************************************)
(* GenerateRampWave.                                                       *)
(***************************************************************************)
\* scaleFactor = (float)MAX_COUNT / (NumSamples - 2);  i = 0
GenEntry ==
    /\ pc = "gen_entry"
    /\ pc' = "gen_loop"
    /\ scaleFactor' = ScaleFactor(NumSamples)
    /\ gi' = 0
    /\ written' = <<>>
    /\ clampHit' = FALSE
    /\ UNCHANGED <<TxBuffer, NumSamples, genret, calls, firstBuf, mainVars,
                   fifoVars>>

\* One pass of the loop body: Buffer[i] = shiftedValue; i++
GenStore ==
    /\ pc = "gen_loop"
    /\ gi < NumSamples
    /\ \E r \in RampValues(gi, NumSamples, scaleFactor) :
           /\ TxBuffer' = [TxBuffer EXCEPT ![gi] = ShiftedValue(gi, NumSamples, r)]
           /\ clampHit' = (clampHit \/ (~IsLast(gi, NumSamples) /\ Clamp(r) # r))
    /\ written' = Append(written, gi)
    /\ gi' = gi + 1
    /\ UNCHANGED <<pc, NumSamples, scaleFactor, genret, calls, firstBuf,
                   mainVars, fifoVars>>

\* The loop ends (i < NumSamples is false) and the function returns.
GenReturn ==
    /\ pc = "gen_loop"
    /\ ~(gi < NumSamples)
    /\ pc' = genret
    /\ firstBuf' = IF calls = 1 THEN TxBuffer ELSE firstBuf
    /\ UNCHANGED <<TxBuffer, NumSamples, gi, scaleFactor, written, genret,
                   calls, clampHit, mainVars, fifoVars>>

(***************************************************************************)
(* main: the streaming loop, while(1).                                     *)
(***************************************************************************)
\* FrameLength in words instead of bytes.
FrameLength_Words ==
    /\ pc = "FrameLength"
    /\ pc' = "Vacancy"
    /\ TxFrameLength' = NUM_SAMPLES
    /\ UNCHANGED <<genVars, Status, i, retval, signal, fifoVars>>

\* TxFrameLength = NUM_SAMPLES * 4;
FrameLength ==
    /\ pc = "FrameLength"
    /\ pc' = "Vacancy"
    /\ TxFrameLength' = NUM_SAMPLES * 4
    /\ UNCHANGED <<genVars, Status, i, retval, signal, fifoVars>>

\* Status = XLlFifo_iTxVacancy(&FifoInstance);
TxVacancy ==
    /\ pc = "Vacancy"
    /\ pc' = "CheckVacancy"
    /\ \E v \in Vacancies(sink, occ) : Status' = ToU32(v)
    /\ lastOp' = Op("TxVacancy", Zero32)
    /\ polls' = 0
    /\ UNCHANGED <<genVars, TxFrameLength, i, retval, signal, isr, txd, frame,
                   frames, ops, occ, sink>>

\* CheckVacancy with the "return XST_FAILURE" missing: the diagnostic is
\* printed and the loop goes on to push.
CheckVacancy_NoReturn ==
    /\ pc = "CheckVacancy"
    /\ signal' = IF IntLess(Status, NUM_SAMPLES)
                 THEN "InsufficientCapacity" ELSE signal
    /\ pc' = "Push"
    /\ i' = 0
    /\ UNCHANGED <<genVars, Status, TxFrameLength, retval, fifoVars>>

\* CheckVacancy with "<=" for "<": a vacancy of exactly NUM_SAMPLES fails.
CheckVacancy_OffByOne ==
    /\ pc = "CheckVacancy"
    /\ IF IntLess(Status, NUM_SAMPLES + 1)
       THEN /\ signal' = "InsufficientCapacity"
            /\ retval' = XST_FAILURE
            /\ pc' = "done"
            /\ i' = i
       ELSE /\ pc' = "Push"
            /\ i' = 0
            /\ UNCHANGED <<retval, signal>>
    /\ UNCHANGED <<genVars, Status, TxFrameLength, fifoVars>>

\* CheckVacancy clearing the error bits on its failure exit, as the fault
\* exit does.
CheckVacancy_Clearing ==
    /\ pc = "CheckVacancy"
    /\ IF IntLess(Status, NUM_SAMPLES)
       THEN /\ signal' = "InsufficientCapacity"
            /\ retval' = XST_FAILURE
            /\ pc' = "done"
            /\ i' = i
            /\ isr' = And32(isr, Not32(XLLF_INT_ERROR_MASK))
            /\ ops' = Append(ops, Op("IntClear", XLLF_INT_ERROR_MASK))
            /\ lastOp' = Op("IntClear", XLLF_INT_ERROR_MASK)
       ELSE /\ pc' = "Push"
            /\ i' = 0
            /\ UNCHANGED <<retval, signal, isr, ops, lastOp>>
    /\ UNCHANGED <<genVars, Status, TxFrameLength, txd, frame, frames, polls,
                   occ, sink>>

\* CheckVacancy asking only for some room: "Status == 0" for
\* "Status < NUM_SAMPLES".
CheckVacancy_NonZero ==
    /\ pc = "CheckVacancy"
    /\ IF Status = Zero32
       THEN /\ signal' = "InsufficientCapacity"
            /\ retval' = XST_FAILURE
            /\ pc' = "done"
            /\ i' = i
       ELSE /\ pc' = "Push"
            /\ i' = 0
            /\ UNCHANGED <<retval, signal>>
    /\ UNCHANGED <<genVars, Status, TxFrameLength, fifoVars>>

\* if (Status < NUM_SAMPLES) { xil_printf("Not enough space ..."); return
\* XST_FAILURE; }  and, otherwise, the start of the for loop: i = 0.
CheckVacancy ==
    /\ pc = "CheckVacancy"
    /\ IF IntLess(Status, NUM_SAMPLES)
       THEN /\ signal' = "InsufficientCapacity"
            /\ retval' = XST_FAILURE
            /\ pc' = "done"
            /\ i' = i
       ELSE /\ pc' = "Push"
            /\ i' = 0
            /\ UNCHANGED <<retval, signal>>
    /\ UNCHANGED <<genVars, Status, TxFrameLength, fifoVars>>

\* TxPutWord with the index off by one: TxBuffer[i + 1], wrapping.
TxPutWord_Shifted ==
    /\ pc = "Push"
    /\ i < NUM_SAMPLES
    /\ txd' = Append(txd, TxBuffer[(i + 1) % NUM_SAMPLES])
    /\ lastOp' = Op("TxPutWord", TxBuffer[(i + 1) % NUM_SAMPLES])
    /\ i' = i + 1
    /\ occ' = IF sink = "fifo" THEN occ + 1 ELSE occ
    /\ UNCHANGED <<pc, genVars, Status, TxFrameLength, retval, signal, isr,
                   frame, frames, ops, polls, sink>>

\* TxPutWord consuming the buffer: the word put is zeroed in TxBuffer.
TxPutWord_Consuming ==
    /\ pc = "Push"
    /\ i < NUM_SAMPLES
    /\ txd' = Append(txd, TxBuffer[i])
    /\ lastOp' = Op("TxPutWord", TxBuffer[i])
    /\ TxBuffer' = [TxBuffer EXCEPT ![i] = Zero32]
    /\ i' = i + 1
    /\ occ' = IF sink = "fifo" THEN occ + 1 ELSE occ
    /\ UNCHANGED <<pc, NumSamples, gi, scaleFactor, written, genret, calls,
                   firstBuf, clampHit, Status, TxFrameLength, retval, signal,
                   isr, frame, frames, ops, polls, sink>>

\* One pass of the for loop: XLlFifo_TxPutWord(&FifoInstance, TxBuffer[i]); i++
TxPutWord ==
    /\ pc = "Push"
    /\ i < NUM_SAMPLES
    /\ txd' = Append(txd, TxBuffer[i])
    /\ lastOp' = Op("TxPutWord", TxBuffer[i])
    /\ i' = i + 1
    /\ occ' = IF sink = "fifo" THEN occ + 1 ELSE occ
    /\ UNCHANGED <<pc, genVars, Status, TxFrameLength, retval, signal, isr,
                   frame, frames, ops, polls, sink>>

\* The for loop ends: i < NUM_SAMPLES is false.
PushDone ==
    /\ pc = "Push"
    /\ ~(i < NUM_SAMPLES)
    /\ pc' = "SetLen"
    /\ UNCHANGED <<genVars, mainVars, fifoVars>>

\* XLlFifo_TxSetLen(&FifoInstance, TxFrameLength): the frame is committed and
\* the core starts sending it, latching whatever events that brings.
TxSetLen ==
    /\ pc = "SetLen"
    /\ pc' = "Status"
    /\ frame' = [len |-> TxFrameLength, words |-> txd]
    /\ txd' = <<>>
    /\ frames' = IF frames < MaxFrames THEN frames + 1 ELSE frames
    /\ \E e \in Events(sink) : isr' = Or32(isr, e)
    /\ lastOp' = Op("TxSetLen", ToU32(TxFrameLength))
    /\ UNCHANGED <<genVars, mainVars, ops, polls, occ, sink>>

\* ReadStatus with the commented-out completion polling restored: the status
\* is read again and again until the transmit-complete bit shows.
ReadStatus_Poll ==
    /\ pc = "Status"
    /\ pc' = IF And32(isr, U32(2048, 0)) # Zero32 THEN "CheckStatus" ELSE "Status"
    /\ Status' = isr
    /\ lastOp' = Op("Status", Zero32)
    /\ polls' = IF polls < MaxPolls THEN polls + 1 ELSE polls
    /\ UNCHANGED <<genVars, TxFrameLength, i, retval, signal, isr, txd, frame,
                   frames, ops, occ, sink>>

\* Status = XLlFifo_Status(&FifoInstance);
ReadStatus ==
    /\ pc = "Status"
    /\ pc' = "CheckStatus"
    /\ Status' = isr
    /\ lastOp' = Op("Status", Zero32)
    /\ polls' = IF polls < MaxPolls THEN polls + 1 ELSE polls
    /\ UNCHANGED <<genVars, TxFrameLength, i, retval, signal, isr, txd, frame,
                   frames, ops, occ, sink>>

\* CheckStatus leaving the loop after a fault-free frame, to the
\* "completed successfully" return.
CheckStatus_Break ==
    /\ pc = "CheckStatus"
    /\ IF HasError(Status)
       THEN /\ signal' = "TransmissionFault"
            /\ pc' = "ClearErrors"
            /\ retval' = retval
       ELSE /\ pc' = "done"
            /\ retval' = XST_SUCCESS
            /\ signal' = signal
    /\ UNCHANGED <<genVars, Status, TxFrameLength, i, fifoVars>>

\* CheckStatus taking any status bit for an error: "Status != 0".
CheckStatus_AnyBit ==
    /\ pc = "CheckStatus"
    /\ IF Status # Zero32
       THEN /\ signal' = "TransmissionFault"
            /\ pc' = "ClearErrors"
       ELSE /\ pc' = "Vacancy"
            /\ signal' = signal
    /\ UNCHANGED <<genVars, Status, TxFrameLength, i, retval, fifoVars>>

\* if (Status & XLLF_INT_ERROR_MASK) { xil_printf("ERROR: ..."); ... }
\* and, otherwise, the end of the while(1) body: back to the vacancy query.
CheckStatus ==
    /\ pc = "CheckStatus"
    /\ IF HasError(Status)
       THEN /\ signal' = "TransmissionFault"
            /\ pc' = "ClearErrors"
       ELSE /\ pc' = "Vacancy"
            /\ signal' = signal
    /\ UNCHANGED <<genVars, Status, TxFrameLength, i, retval, fifoVars>>

\* ClearErrors with the transmit-error bits only (0x12000000).
ClearErrors_TxOnly ==
    /\ pc = "ClearErrors"
    /\ pc' = "ReturnFault"
    /\ isr' = And32(isr, Not32(U32(4608, 0)))
    /\ ops' = Append(ops, Op("IntClear", U32(4608, 0)))
    /\ lastOp' = Op("IntClear", U32(4608, 0))
    /\ UNCHANGED <<genVars, mainVars, txd, frame, frames, polls, occ, sink>>

\* XLlFifo_IntClear(&FifoInstance, XLLF_INT_ERROR_MASK);
ClearErrors ==
    /\ pc = "ClearErrors"
    /\ pc' = "ReturnFault"
    /\ isr' = And32(isr, Not32(XLLF_INT_ERROR_MASK))
    /\ ops' = Append(ops, Op("IntClear", XLLF_INT_ERROR_MASK))
    /\ lastOp' = Op("IntClear", XLLF_INT_ERROR_MASK)
    /\ UNCHANGED <<genVars, mainVars, txd, frame, frames, polls, occ, sink>>

\* return XST_FAILURE;  (after the errors are cleared)
ReturnFault ==
    /\ pc = "ReturnFault"
    /\ pc' = "done"
    /\ retval' = XST_FAILURE
    /\ UNCHANGED <<genVars, Status, TxFrameLength, i, signal, fifoVars>>

Next ==
    \/ Initialize
    \/ Reset
    \/ IntClearAll
    \/ Sleep
    \/ ResetStatus
    \/ CallGenerate
    \/ GenEntry
    \/ GenStore
    \/ GenReturn
    \/ FrameLength
    \/ TxVacancy
    \/ CheckVacancy
    \/ TxPutWord
    \/ PushDone
    \/ TxSetLen
    \/ ReadStatus
    \/ CheckStatus
    \/ ClearErrors
    \/ ReturnFault

Spec == Init /\ [][Next]_vars

\* The processor executes the next statement as long as there is one.
FairSpec == Spec /\ WF_vars(Next)

(***************************************************************************)
(* main driving a FIFO of FifoDepth words whose occupancy is tracked: main *)
(* is the only writer, and the sink takes words out at any moment.         *)
(***************************************************************************)
InitFifo ==
    /\ pc = "Initialize"
    /\ TxBuffer = [k \in 0 .. NUM_SAMPLES - 1 |-> Zero32]
    /\ NumSamples = 0
    /\ gi = 0
    /\ scaleFactor = FZero
    /\ written = <<>>
    /\ genret = "FrameLength"
    /\ calls = 0
    /\ firstBuf = <<>>
    /\ clampHit = FALSE
    /\ Status = Zero32
    /\ TxFrameLength = 0
    /\ i = 0
    /\ retval = "running"
    /\ signal = "None"
    /\ isr = Zero32
    /\ txd = <<>>
    /\ frame = NoFrame
    /\ frames = 0
    /\ ops = <<>>
    /\ lastOp = NoOp
    /\ polls = 0
    /\ occ \in {0, FifoDepth}
    /\ sink = "fifo"

\* The sink takes one word out of the transmit FIFO.
Drain ==
    /\ sink = "fifo"
    /\ occ > 0
    /\ occ' = occ - 1
    /\ UNCHANGED <<pc, genVars, mainVars, isr, txd, frame, frames, ops, lastOp,
                   polls, sink>>

NextFifo == Next \/ Drain

SpecFifo == InitFifo /\ [][NextFifo]_vars

(***************************************************************************)
(* GenerateRampWave on its own: any length up to MaxSamples and the        *)
(* program's own 256, on a buffer of that length with any prior contents.  *)
(***************************************************************************)
GenLengths == (0 .. MaxSamples) \cup {NUM_SAMPLES}

\* What the buffer may hold before the call.
PriorWords == {Zero32, U32(57005, 48879)}

InitGen ==
    /\ pc = "gen_entry"
    /\ NumSamples \in GenLengths
    /\ \E w \in PriorWords : TxBuffer = [k \in 0 .. NumSamples - 1 |-> w]
    /\ gi = 0
    /\ scaleFactor = FZero
    /\ written = <<>>
    /\ genret = "gen_returned"
    /\ calls = 1
    /\ firstBuf = <<>>
    /\ clampHit = FALSE
    /\ Status = Zero32
    /\ TxFrameLength = 0
    /\ i = 0
    /\ retval = "running"
    /\ signal = "None"
    /\ isr = Zero32
    /\ txd = <<>>
    /\ frame = NoFrame
    /\ frames = 0
    /\ ops = <<>>
    /\ lastOp = NoOp
    /\ polls = 0
    /\ occ = 0
    /\ sink = "mock"

\* GenerateRampWave is called again, with the same NumSamples, on the buffer
\* the previous call left.
GenAgain ==
    /\ pc = "gen_returned"
    /\ calls < MaxCalls
    /\ pc' = "gen_entry"
    /\ calls' = calls + 1
    /\ UNCHANGED <<TxBuffer, NumSamples, gi, scaleFactor, written, genret,
                   firstBuf, clampHit, mainVars, fifoVars>>

NextGen ==
    \/ GenEntry
    \/ GenStore
    \/ GenReturn
    \/ GenAgain

SpecGen == InitGen /\ [][NextGen]_vars

(***************************************************************************)
(* Properties.                                                             *)
(***************************************************************************)
\* The vacancy the last query returned, in words (read at "CheckVacancy").
VacancySeen == Status.hi * Half + Status.lo

\* The first n words of the buffer, as the sequence a strict FIFO receives.
BufferPrefix(n) == [k \in 1 .. n |-> TxBuffer[k - 1]]

StreamingOps == {"TxVacancy", "TxPutWord", "TxSetLen"}

\* C1: when the vacancy query returns fewer than NUM_SAMPLES words, the very
\* next step of the program is the return of XST_FAILURE with the
\* InsufficientCapacity diagnostic: no word is put and no frame committed in
\* that iteration, so the run ends with no partial frame in the FIFO and the
\* vacancy query as its last driver call.
C1_CapacityFailureStops ==
    /\ [][(pc = "CheckVacancy" /\ VacancySeen < NUM_SAMPLES) =>
            /\ pc' = "done"
            /\ retval' = XST_FAILURE
            /\ signal' = "InsufficientCapacity"
            /\ txd = <<>> /\ txd' = <<>>
            /\ frame' = frame
            /\ lastOp' = Op("TxVacancy", Zero32)]_vars
    /\ []((pc = "done" /\ signal = "InsufficientCapacity") =>
            /\ retval = XST_FAILURE
            /\ txd = <<>>
            /\ lastOp = Op("TxVacancy", Zero32)
            /\ VacancySeen < NUM_SAMPLES)

\* C1 witness: the run has ended on the capacity check in an iteration after
\* the first, the vacancy being one word short.
C1_Witness ==
    /\ pc = "done"
    /\ signal = "InsufficientCapacity"
    /\ VacancySeen = NUM_SAMPLES - 1
    /\ frames >= 1

\* C2: when the status read after a frame commit has a bit of
\* XLLF_INT_ERROR_MASK set, the program prints the fault, calls
\* XLlFifo_IntClear with exactly XLLF_INT_ERROR_MASK and returns XST_FAILURE:
\* once the fault is signalled there is no further vacancy query, put or
\* commit, the IntClear is the last driver call, and no fault bit is latched
\* when the run has ended.
C2_FaultClearsAndStops ==
    /\ [][(pc = "CheckStatus" /\ And32(Status, XLLF_INT_ERROR_MASK) # Zero32) =>
            (pc' = "ClearErrors" /\ signal' = "TransmissionFault")]_vars
    /\ [][pc = "ClearErrors" =>
            (pc' = "ReturnFault" /\ lastOp' = Op("IntClear", XLLF_INT_ERROR_MASK))]_vars
    /\ [][signal = "TransmissionFault" =>
            (txd' = txd /\ frame' = frame /\ lastOp'.op \notin StreamingOps)]_vars
    /\ [](signal = "TransmissionFault" =>
            pc \in {"ClearErrors", "ReturnFault", "done"})
    /\ []((pc = "done" /\ signal = "TransmissionFault") =>
            /\ retval = XST_FAILURE
            /\ lastOp = Op("IntClear", XLLF_INT_ERROR_MASK)
            /\ And32(isr, XLLF_INT_ERROR_MASK) = Zero32)

\* C2 witness: the run has ended on a fault of its second (or a later) frame,
\* the status having had a receive-side fault bit (RPURE) set.
C2_Witness ==
    /\ pc = "done"
    /\ signal = "TransmissionFault"
    /\ Status.hi >= 32768
    /\ frames = MaxFrames

\* C3: the words put since the last commit are always the first i words of
\* TxBuffer in index order; they are none at the vacancy query and exactly
\* NUM_SAMPLES at the commit, so every committed frame is the whole buffer,
\* each word once and in order.
C3_PushesInOrder ==
    /\ pc = "Push" => (i <= NUM_SAMPLES /\ txd = BufferPrefix(i))
    /\ pc = "SetLen" => txd = BufferPrefix(NUM_SAMPLES)
    /\ pc \in {"Vacancy", "CheckVacancy", "Status", "CheckStatus"} => txd = <<>>
    /\ lastOp.op = "TxPutWord" => (i >= 1 /\ lastOp.arg = TxBuffer[i - 1])
    /\ frames > 0 => frame.words = BufferPrefix(NUM_SAMPLES)

\* C3 witness: in the second iteration, half of the frame has been put, the
\* last word put being a non-zero sample.
C3_Witness ==
    /\ pc = "Push"
    /\ frames = 1
    /\ i = 128
    /\ Len(txd) = 128
    /\ txd[128] = U32(32768, 0)

\* C4: every frame commit passes NUM_SAMPLES * 4 = 1024 bytes, which is four
\* times the number of words put since the previous commit.
C4_CommitLength ==
    /\ (pc = "SetLen" \/ frames > 0) => TxFrameLength = 1024
    /\ lastOp.op = "TxSetLen" => lastOp.arg = ToU32(NUM_SAMPLES * 4)
    /\ frames > 0 => (frame.len = 1024 /\ frame.len = 4 * Len(frame.words))

\* C4 witness: the second frame has just been committed.
C4_Witness ==
    /\ lastOp.op = "TxSetLen"
    /\ frames = 2
    /\ frame.len = 1024

\* C5: the capacity failure is taken exactly when the vacancy is below
\* NUM_SAMPLES: a vacancy of NUM_SAMPLES or more, NUM_SAMPLES itself included,
\* starts the push loop at word 0, and that iteration goes on to commit a
\* frame of all NUM_SAMPLES words.
C5_ExactVacancySuffices ==
    /\ [][pc = "CheckVacancy" =>
            /\ (pc' = "done" /\ signal' = "InsufficientCapacity")
                   <=> VacancySeen < NUM_SAMPLES
            /\ (pc' = "Push" /\ i' = 0 /\ signal' = signal /\ retval' = "running")
                   <=> VacancySeen >= NUM_SAMPLES]_vars
    /\ [](pc \in {"Push", "SetLen"} => VacancySeen >= NUM_SAMPLES)
    /\ (pc = "CheckVacancy" /\ VacancySeen >= NUM_SAMPLES)
           ~> (pc = "Status" /\ lastOp.op = "TxSetLen"
               /\ Len(frame.words) = NUM_SAMPLES)

\* C5 witness: a frame has been committed in an iteration whose vacancy query
\* returned exactly NUM_SAMPLES.
C5_Witness ==
    /\ pc = "Status"
    /\ VacancySeen = NUM_SAMPLES
    /\ Len(frame.words) = NUM_SAMPLES
    /\ signal = "None"

\* C6: main never returns XST_SUCCESS: until it returns it is running, it
\* returns only XST_FAILURE and only after one of the two fatal diagnostics,
\* and once it has returned nothing changes any more.
C6_NoSuccessfulEnd ==
    /\ [](retval # XST_SUCCESS)
    /\ [](pc # "done" => retval = "running")
    /\ [](pc = "done" =>
            /\ retval = XST_FAILURE
            /\ signal \in {"InsufficientCapacity", "TransmissionFault"})
    /\ [][pc = "done" => UNCHANGED vars]_vars

\* C6 witness: main has returned, and at least one frame went out before.
C6_Witness ==
    /\ pc = "done"
    /\ retval = XST_FAILURE
    /\ frames >= 1

\* C7: in a run in which every vacancy query returns at least NUM_SAMPLES and
\* no status read has a bit of XLLF_INT_ERROR_MASK set, main never returns,
\* every status check is followed by a new vacancy query, and frames are
\* committed again and again, whatever other status bits are set.
C7_FaultFreeRunStreamsForever ==
    ( /\ [](pc = "CheckVacancy" => VacancySeen >= NUM_SAMPLES)
      /\ [](pc = "CheckStatus" => And32(Status, XLLF_INT_ERROR_MASK) = Zero32) )
    => ( /\ [](pc # "done")
         /\ [](pc = "CheckStatus" => <>(pc = "CheckVacancy"))
         /\ []<>(pc = "Status" /\ lastOp.op = "TxSetLen") )

\* C7 witness: the loop is back at the vacancy query after its second frame
\* with status bits outside the error mask (TC, TRC, RRC) latched.
C7_Witness ==
    /\ pc = "Vacancy"
    /\ frames = MaxFrames
    /\ isr = U32(2432, 0)
    /\ Status = isr

\* C8: whenever a vacancy query, a put or a frame commit has been issued,
\* the first three lifecycle calls were Initialize, Reset and an IntClear
\* that covers every fault bit, in that order.
C8_LifecycleFirst ==
    (lastOp.op \in StreamingOps \/ txd # <<>> \/ frames > 0) =>
        /\ Len(ops) >= 3
        /\ ops[1].op = "Initialize"
        /\ ops[2].op = "Reset"
        /\ ops[3].op = "IntClear"
        /\ And32(ops[3].arg, XLLF_INT_ERROR_MASK) = XLLF_INT_ERROR_MASK

\* C8 witness: the first vacancy query has just been issued.
C8_Witness ==
    /\ lastOp.op = "TxVacancy"
    /\ frames = 0
    /\ Len(ops) = 3

\* C9: for 2 <= NumSamples, once GenerateRampWave has returned it has stored
\* to each index 0 .. NumSamples-1 exactly once, the last element is 0, and
\* every other element has an amplitude (element >> 18) in 0 .. 16383 and
\* bits 0..17 zero, each half of the word within 16 bits.
C9_GeneratedShape ==
    (pc = "gen_returned" /\ NumSamples >= 2) =>
        /\ written = [k \in 1 .. NumSamples |-> k - 1]
        /\ DOMAIN TxBuffer = 0 .. NumSamples - 1
        /\ TxBuffer[NumSamples - 1] = Zero32
        /\ \A k \in 0 .. NumSamples - 2 :
               /\ TxBuffer[k].hi \in 0 .. 65535
               /\ TxBuffer[k].lo \in 0 .. 65535
               /\ Amplitude(TxBuffer[k]) \in 0 .. 16383
               /\ LowBits(TxBuffer[k]) = 0

\* C9 witness: a generated buffer over prior contents, its ramp reaching an
\* odd amplitude at full scale.
C9_Witness ==
    /\ pc = "gen_returned"
    /\ NumSamples = MaxSamples
    /\ Amplitude(TxBuffer[NumSamples - 2]) = 16383

\* C10: for NumSamples = 256 element i < 255 has amplitude
\* floor(i * 16383 / 254 + 0.5) = (2 * i * 16383 + 254) \div 508 in bits
\* 31..18; element 0 is 0x00000000, element 127 is 0x80000000 (amplitude
\* 8192) and element 255 is 0x00000000.
C10_Ramp256 ==
    (pc = "gen_returned" /\ NumSamples = 256) =>
        /\ \A k \in 0 .. 254 :
               /\ Amplitude(TxBuffer[k]) = (2 * k * 16383 + 254) \div 508
               /\ LowBits(TxBuffer[k]) = 0
        /\ TxBuffer[0] = U32(0, 0)
        /\ Amplitude(TxBuffer[127]) = 8192
        /\ TxBuffer[127] = U32(32768, 0)
        /\ TxBuffer[255] = U32(0, 0)

\* C10 witness: the 256-sample buffer generated over non-zero prior contents.
C10_Witness ==
    /\ pc = "gen_returned"
    /\ NumSamples = 256
    /\ Len(written) = 256
    /\ TxBuffer[254] = U32(65532, 0)

\* C11: for 3 <= NumSamples, once GenerateRampWave has returned, the
\* amplitudes of the non-final elements 0 .. NumSamples-2 never decrease as
\* the index grows.
C11_RampNonDecreasing ==
    (pc = "gen_returned" /\ NumSamples >= 3) =>
        \A k \in 0 .. NumSamples - 3 :
            Amplitude(TxBuffer[k]) <= Amplitude(TxBuffer[k + 1])

\* C11 witness: a seven-sample ramp, whose inexact scale 16383/5 rounds
\* element 2 down (6553) and element 3 up (9830).
C11_Witness ==
    /\ pc = "gen_returned"
    /\ NumSamples = 7
    /\ Amplitude(TxBuffer[2]) = 6553
    /\ Amplitude(TxBuffer[3]) = 9830
    /\ Amplitude(TxBuffer[5]) = 16383

\* C12: a second call of GenerateRampWave with the same NumSamples leaves the
\* buffer bit-identical to what the first call left, whatever the buffer held
\* before the first call.
C12_SecondCallIdentical ==
    (pc = "gen_returned" /\ calls >= 2) => TxBuffer = firstBuf

\* C13: with NumSamples < 2 GenerateRampWave is rejected at entry: it never
\* computes scaleFactor with the divisor NumSamples - 2, never enters the loop
\* and writes no element of the buffer.
C13_ShortLengthRejected ==
    NumSamples < 2 =>
        /\ pc \in {"gen_entry", "gen_returned"}
        /\ scaleFactor = FZero
        /\ written = <<>>

\* C14: in each pass of the loop XLlFifo_Status is called exactly once, right
\* after that pass's XLlFifo_TxSetLen and before the next XLlFifo_iTxVacancy;
\* a fault-free status leads straight back to the vacancy query, whether or
\* not the transmit-complete bit is set, and nothing is read or awaited in
\* between.
C14_StatusOncePerIteration ==
    /\ [](/\ polls <= 1
          /\ (pc \in {"CheckVacancy", "Push", "SetLen", "Status"} => polls = 0)
          /\ (pc = "Status" => lastOp = Op("TxSetLen", ToU32(TxFrameLength)))
          /\ (pc = "CheckStatus" =>
                 polls = 1 /\ lastOp = Op("Status", Zero32) /\ Status = isr)
          /\ (pc = "Vacancy" /\ frames > 0 =>
                 polls = 1 /\ lastOp = Op("Status", Zero32)))
    /\ [][(pc = "Status" => pc' = "CheckStatus")
          /\ (pc = "CheckStatus" /\ ~HasError(Status) =>
                 pc' = "Vacancy" /\ isr' = isr)]_vars

\* C14 witness: the second vacancy query is due after one status read, while
\* the transmit-complete bit of the committed frame has not shown.
C14_Witness ==
    /\ pc = "Vacancy"
    /\ frames = 1
    /\ polls = 1
    /\ frame.words = BufferPrefix(NUM_SAMPLES)
    /\ And32(isr, U32(2048, 0)) = Zero32

\* The labels of main from the end of GenerateRampWave on.
LoopLabels ==
    {"FrameLength", "Vacancy", "CheckVacancy", "Push", "SetLen", "Status",
     "CheckStatus", "ClearErrors", "ReturnFault", "done"}

\* The 256-sample ramp in closed form: round(k * 16383 / 254) << 18, and 0
\* for the last element.
Ramp256 ==
    [k \in 0 .. NUM_SAMPLES - 1 |->
        IF k = NUM_SAMPLES - 1 THEN Zero32
        ELSE U32(((2 * k * MAX_COUNT + 254) \div 508) * 4, 0)]

\* C15: GenerateRampWave is called exactly once, before the first
\* XLlFifo_TxPutWord; from its return on TxBuffer is never written again and
\* equals what that call produced, so that every committed frame carries the
\* same NUM_SAMPLES words.
C15_BufferGeneratedOnce ==
    /\ [](/\ (pc \in LoopLabels =>
                 /\ calls = 1
                 /\ TxBuffer = firstBuf
                 /\ TxBuffer = Ramp256
                 /\ written = [k \in 1 .. NUM_SAMPLES |-> k - 1])
          /\ (pc \notin LoopLabels => txd = <<>> /\ frames = 0)
          /\ (frames > 0 =>
                 frame.words = [k \in 1 .. NUM_SAMPLES |-> firstBuf[k - 1]]))
    /\ [][(pc \in LoopLabels) => (TxBuffer' = TxBuffer /\ calls' = calls)]_vars

\* C15 witness: a later pass of the loop is half-way through its pushes, the
\* buffer being the one the single call produced.
C15_Witness ==
    /\ pc = "Push"
    /\ frames = MaxFrames
    /\ i = 128
    /\ calls = 1
    /\ txd = BufferPrefix(128)
    /\ TxBuffer[127] = U32(32768, 0)

\* The labels of main before its first XLlFifo_iTxVacancy has returned.
StartLabels ==
    {"Initialize", "Reset", "IntClear", "usleep", "ResetStatus", "Generate",
     "gen_entry", "gen_loop", "FrameLength"}

\* C16: the status read after the reset decides nothing: whatever it is,
\* error bits included, main goes on to GenerateRampWave and reaches its first
\* XLlFifo_iTxVacancy, and it never returns before that query.
C16_ResetStatusNotValidated ==
    /\ []((pc \in StartLabels \/ (pc = "Vacancy" /\ frames = 0)) =>
             (retval = "running" /\ signal = "None"))
    /\ [](retval # "running" =>
             (lastOp.op = "TxVacancy" \/ (lastOp.op = "IntClear" /\ frames > 0)))
    /\ [][(pc = "ResetStatus") => (pc' = "Generate" /\ Status' = isr)]_vars
    /\ ((pc = "Generate") ~>
           (pc = "CheckVacancy" /\ frames = 0 /\ lastOp.op = "TxVacancy"))

\* C16 witness: the first vacancy query has returned although the status
\* register held an error bit when it was read after the reset.
C16_Witness ==
    /\ pc = "CheckVacancy"
    /\ frames = 0
    /\ lastOp.op = "TxVacancy"
    /\ HasError(isr)
    /\ retval = "running"
    /\ TxBuffer[254] = U32(65532, 0)

\* C17: with main the only writer and the sink only taking words out, no
\* XLlFifo_TxPutWord is made into a full FIFO: before the push of word i the
\* free space is at least NUM_SAMPLES - i, which is at least 1, and the
\* occupancy never exceeds FifoDepth, however the sink's steps interleave.
C17_NeverPushWhenFull ==
    /\ occ <= FifoDepth
    /\ (pc = "Push" /\ i < NUM_SAMPLES) =>
           /\ VacancySeen >= NUM_SAMPLES
           /\ FifoDepth - occ >= NUM_SAMPLES - i
           /\ FifoDepth - occ >= 1

\* C17 witness: the last word of the second frame is about to be put into
\* the one slot left, the sink having taken nothing since the vacancy query.
C17_Witness ==
    /\ sink = "fifo"
    /\ pc = "Push"
    /\ frames = 1
    /\ i = NUM_SAMPLES - 1
    /\ occ = FifoDepth - 1

\* C18: XLlFifo_IntClear is called once with 0xffffffff at start-up, after
\* the reset and before the first vacancy query, and otherwise only with
\* XLLF_INT_ERROR_MASK, as the last driver call of a run that ends with the
\* transmission-fault diagnostic; no other step clears a status bit, so the
\* exit for lack of room leaves the latched bits as they were.
C18_ClearFaultsUse ==
    /\ [](/\ Len(ops) <= 4
          /\ \A k \in 1 .. Len(ops) :
                 ops[k].op = "IntClear" =>
                     \/ (k = 3 /\ ops[k].arg = AllOnes32)
                     \/ (k = 4 /\ ops[k].arg = XLLF_INT_ERROR_MASK)
          /\ (pc \notin {"Initialize", "Reset", "IntClear"} =>
                 /\ Len(ops) >= 3
                 /\ ops[2] = Op("Reset", Zero32)
                 /\ ops[3] = Op("IntClear", AllOnes32))
          /\ (lastOp.op = "TxVacancy" => Len(ops) = 3)
          /\ (Len(ops) = 4 =>
                 /\ pc \in {"ReturnFault", "done"}
                 /\ signal = "TransmissionFault"
                 /\ lastOp = ops[4])
          /\ (signal = "InsufficientCapacity" =>
                 Len(ops) = 3 /\ lastOp.op = "TxVacancy"))
    /\ [][(And32(isr, isr') # isr) =>
              (pc \in {"Reset", "IntClear", "ClearErrors"})]_vars
    /\ [][(pc = "CheckVacancy") => (isr' = isr /\ ops' = ops)]_vars

\* C18 witness: the run has ended for lack of room before any frame, with an
\* error bit still latched in the status register.
C18_Witness ==
    /\ pc = "done"
    /\ signal = "InsufficientCapacity"
    /\ retval = XST_FAILURE
    /\ frames = 0
    /\ HasError(isr)
    /\ Len(ops) = 3

\* C19: for NumSamples = 256 the ramp reaches MAX_COUNT exactly at index 254
\* (word 0xFFFC0000) and stays strictly below it at indices 0 .. 253; the
\* rounded value never exceeds MAX_COUNT, so the clamp is never taken and the
\* shift by 18 loses no bit.
C19_FullScaleAtLastRampIndex ==
    (NumSamples = NUM_SAMPLES) =>
        /\ ~clampHit
        /\ (pc = "gen_loop" /\ gi < NumSamples =>
               \A r \in RampValues(gi, NumSamples, scaleFactor) :
                   r.hi = 0 /\ r.lo <= MAX_COUNT)
        /\ (pc = "gen_returned" =>
               /\ Amplitude(TxBuffer[NUM_SAMPLES - 2]) = MAX_COUNT
               /\ TxBuffer[NUM_SAMPLES - 2] = U32(65532, 0)
               /\ \A k \in 0 .. NUM_SAMPLES - 3 :
                      Amplitude(TxBuffer[k]) < MAX_COUNT)

\* C19 witness: the 256-sample call has returned with full scale at index
\* 254 and one step less than full scale at index 253.
C19_Witness ==
    /\ pc = "gen_returned"
    /\ NumSamples = NUM_SAMPLES
    /\ ~clampHit
    /\ Amplitude(TxBuffer[254]) = 16383
    /\ Amplitude(TxBuffer[253]) = 16319

====
